---- MODULE Spec2Model ----
(***************************************************************************)
(* Model of the Deno transcription starter.  Two deployment variants of    *)
(* the same server are modelled side by side:                              *)
(*   "cors"     - src/server.ts        (API only, cross-origin headers)    *)
(*   "frontend" - src/unnamed/part_000 (API + dev proxy / static files)    *)
(* A request is a record that moves from one suspension point (await) of   *)
(* its handler to the next; every action is the synchronous stretch of     *)
(* code between two awaits.                                                *)
(***************************************************************************)
EXTENDS Integers, Sequences, FiniteSets, TLC

VARIABLES config, dist, req

vars == <<config, dist, req>>

(***************************************************************************)
(* Bounds of the model.                                                    *)
(***************************************************************************)
MaxDuration == 1
MaxFileLen == 1

(***************************************************************************)
(* Optional values (undefined / null versus a value) and JS truthiness.    *)
(***************************************************************************)
None == <<>>
Some(v) == <<v>>
IsSome(o) == Len(o) > 0
Get(o) == o[1]

TruthyString(s) == s # ""
TruthyNumber(n) == n # 0

(***************************************************************************)
(* Program constants.                                                      *)
(***************************************************************************)
DEFAULT_MODEL == "nova-3"

Variants == {"cors", "frontend"}

\* The default port and one set through the environment.
FrontendPorts == {8080, 3000}
VitePorts == {8081, 5173}

\* server.ts configures the frontend origin only; part_000 configures the
\* dev-server port and the development flag only.  The fields a variant does
\* not have keep their defaults.
Configs ==
  [variant : {"cors"}, isDevelopment : {FALSE},
   frontendPort : FrontendPorts, vitePort : {8081}]
    \cup [variant : {"frontend"}, isDevelopment : BOOLEAN,
          frontendPort : {8080}, vitePort : VitePorts]

(***************************************************************************)
(* Inbound requests: method, pathname (kept as its pieces between dots,    *)
(* the way getContentType splits it) and query string.                     *)
(***************************************************************************)
Methods == {"GET", "POST", "OPTIONS"}

TranscribePath == <<"/stt/transcribe">>
MetadataPath == <<"/api/metadata">>
RootPath == <<"/">>
IndexPath == <<"/index", "html">>

Pathnames ==
  {TranscribePath, MetadataPath, RootPath, IndexPath,
   <<"/LOGO", "PNG">>, <<"/missing">>}

Searches == {"", "?v=1"}

(***************************************************************************)
(* Form fields as formData.get returns them: null, a text value or a File. *)
(***************************************************************************)
NullField == [kind |-> "null", text |-> "", type |-> "", bytes |-> <<>>]
TextField(s) == [kind |-> "text", text |-> s, type |-> "", bytes |-> <<>>]
FileField(t, b) == [kind |-> "file", text |-> "", type |-> t, bytes |-> b]

Truthy(f) == f.kind = "file" \/ (f.kind = "text" /\ TruthyString(f.text))

Bytes == {7}
FileContents == UNION {[1..n -> Bytes] : n \in 0..MaxFileLen}
MimeTypes == {"audio/wav"}

FileValues ==
  {NullField, TextField(""), TextField("abc")}
    \cup {FileField(t, b) : t \in MimeTypes, b \in FileContents}
UrlValues == {NullField, TextField(""), TextField("https://a/x.wav")}
ModelValues == {NullField, TextField(""), TextField("nova-2")}

Forms == [file : FileValues, url : UrlValues, model : ModelValues]

(***************************************************************************)
(* Values a collaborator may throw (or reject with).                       *)
(***************************************************************************)
ErrorOf(n, m) == [kind |-> "Error", name |-> n, message |-> m, stack |-> n \o "\n    at <anonymous>"]
ThrownString(s) == [kind |-> "string", name |-> "", message |-> s, stack |-> ""]
ThrownNullish == [kind |-> "nullish", name |-> "", message |-> "", stack |-> ""]

Thrown ==
  {ErrorOf("Error", "boom"), ErrorOf("TypeError", ""), ThrownString("oops"), ThrownNullish}

(***************************************************************************)
(* Provider replies: the value transcribeUrl / transcribeFile resolve to.  *)
(***************************************************************************)
Word == [word |-> "hello", start |-> 0]

Alternatives ==
  [transcript : {None, Some(""), Some("hello world")},
   words : {None, Some(<<>>), Some(<<Word>>)}]

Durations == 0..MaxDuration

ProviderMetadata_(model_uuid, request_id, duration, models) ==
  [model_uuid |-> model_uuid, request_id |-> request_id, duration |-> duration, models |-> models]

Metadatas ==
  {ProviderMetadata_(None, None, None, None),
   ProviderMetadata_(Some("abc"), None, None, None),
   ProviderMetadata_(None, Some("req-1"), None, Some("provider-internal-model"))}
    \cup {ProviderMetadata_(Some("abc"), Some("req-1"), Some(d), Some("provider-internal-model")) :
            d \in Durations}

Transcription(results, metadata) == [results |-> results, metadata |-> metadata]
Results(channels) == [channels |-> channels]
Channel(alternatives) == [alternatives |-> alternatives]

GoodTranscriptions ==
  {Transcription(Some(Results(Some(<<Channel(Some(<<a>>))>>))), md) :
     a \in Alternatives, md \in {None} \cup {Some(m) : m \in Metadatas}}

BadTranscriptions ==
  {Transcription(None, None),
   Transcription(Some(Results(None)), None),
   Transcription(Some(Results(Some(<<>>))), None),
   Transcription(Some(Results(Some(<<Channel(None)>>))), None),
   Transcription(Some(Results(Some(<<Channel(Some(<<>>))>>))),
                 Some([model_uuid |-> Some("abc"), request_id |-> Some("req-1"),
                       duration |-> Some(1), models |-> None]))}

\* A reply is the resolved value itself (absent when the SDK resolves to undefined).
Replies ==
  {None, Some([result |-> None])}
    \cup {Some([result |-> Some(t)]) : t \in GoodTranscriptions \cup BadTranscriptions}

(***************************************************************************)
(* validateTranscriptionInput: the request object for the provider, or     *)
(* null.  The cors variant leaves the buffer unset, the frontend variant   *)
(* starts it as an empty ArrayBuffer.                                      *)
(***************************************************************************)
DgRequest(url, buffer, mimetype) == [url |-> url, buffer |-> buffer, mimetype |-> mimetype]

FileType(file) == IF file.kind = "file" THEN Some(file.type) ELSE None

\* Variant of the check that treats every non-null url, "" included, as given.
validateTranscriptionInput_UrlNotNull(variant, file, url) ==
  IF url.kind # "null" THEN Some(DgRequest(Some(url.text), None, None))
  ELSE IF Truthy(file)
    THEN IF variant = "cors"
           THEN Some(DgRequest(None, None, FileType(file)))
           ELSE Some(DgRequest(None, Some(<<>>), FileType(file)))
    ELSE None

validateTranscriptionInput(variant, file, url) ==
  IF Truthy(url) THEN Some(DgRequest(Some(url.text), None, None))
  ELSE IF Truthy(file)
    THEN IF variant = "cors"
           THEN Some(DgRequest(None, None, FileType(file)))
           ELSE Some(DgRequest(None, Some(<<>>), FileType(file)))
    ELSE None

(***************************************************************************)
(* transcribeAudio: the provider operation it starts, or None when it      *)
(* throws "Invalid transcription request".                                 *)
(***************************************************************************)
ProviderCall(op, url, buffer, mimetype, model) ==
  [op |-> op, url |-> url, buffer |-> buffer, mimetype |-> mimetype, model |-> model]

transcribeAudio(dgRequest, model) ==
  IF IsSome(dgRequest.url) /\ TruthyString(Get(dgRequest.url))
    THEN Some(ProviderCall("transcribeUrl", dgRequest.url, None, None, model))
  ELSE IF IsSome(dgRequest.buffer)
    THEN Some(ProviderCall("transcribeFile", None, dgRequest.buffer, dgRequest.mimetype, model))
  ELSE None

(***************************************************************************)
(* formatTranscriptionResponse.                                            *)
(***************************************************************************)
FirstAlternative(transcription) ==
  IF ~IsSome(transcription) THEN None
  ELSE LET rs == Get(transcription).results IN
    IF ~IsSome(rs) THEN None
    ELSE LET ch == Get(rs).channels IN
      IF ~IsSome(ch) \/ Len(Get(ch)) = 0 THEN None
      ELSE LET al == Get(ch)[1].alternatives IN
        IF ~IsSome(al) \/ Len(Get(al)) = 0 THEN None
        ELSE Some(Get(al)[1])

MetadataField(transcription, f) ==
  IF IsSome(Get(transcription).metadata) THEN Get(Get(transcription).metadata)[f] ELSE None

DurationReported(md) == IF IsSome(md) /\ TruthyNumber(Get(md)) THEN md ELSE None

Returned(v) == [threw |-> None, value |-> Some(v)]
Threw(e) == [threw |-> Some(e), value |-> None]

FormattedBody(transcript, words, model_uuid, request_id, model_name, duration) ==
  [transcript |-> transcript, words |-> words,
   metadata |-> [model_uuid |-> model_uuid, request_id |-> request_id,
                 model_name |-> model_name],
   duration |-> duration]

\* Variant without the "no result" check: a reply without a first
\* alternative is formatted as an empty transcript.
formatTranscriptionResponse_NoResultCheck(transcriptionResponse, modelName) ==
  IF ~IsSome(transcriptionResponse) \/ ~IsSome(Get(transcriptionResponse).result)
    THEN Returned(FormattedBody("", <<>>, None, None, modelName, None))
  ELSE LET transcription == Get(transcriptionResponse).result
           result == FirstAlternative(transcription)
           alt == IF IsSome(result) THEN Get(result) ELSE [transcript |-> None, words |-> None]
       IN Returned(FormattedBody(
            IF IsSome(alt.transcript) /\ TruthyString(Get(alt.transcript))
              THEN Get(alt.transcript) ELSE "",
            IF IsSome(alt.words) THEN Get(alt.words) ELSE <<>>,
            MetadataField(transcription, "model_uuid"),
            MetadataField(transcription, "request_id"),
            modelName,
            DurationReported(MetadataField(transcription, "duration"))))

\* Variant that reports the provider's own model identifier when it has one.
formatTranscriptionResponse_ProviderModel(transcriptionResponse, modelName) ==
  IF ~IsSome(transcriptionResponse)
    THEN Threw(ErrorOf("TypeError", "Cannot read properties of undefined (reading 'result')"))
  ELSE LET transcription == Get(transcriptionResponse).result
           result == FirstAlternative(transcription)
       IN IF ~IsSome(result)
            THEN Threw(ErrorOf("Error", "No transcription results returned from Deepgram"))
            ELSE Returned(FormattedBody(
              IF IsSome(Get(result).transcript) /\ TruthyString(Get(Get(result).transcript))
                THEN Get(Get(result).transcript) ELSE "",
              IF IsSome(Get(result).words) THEN Get(Get(result).words) ELSE <<>>,
              MetadataField(transcription, "model_uuid"),
              MetadataField(transcription, "request_id"),
              IF IsSome(MetadataField(transcription, "models"))
                THEN Get(MetadataField(transcription, "models")) ELSE modelName,
              DurationReported(MetadataField(transcription, "duration"))))

formatTranscriptionResponse(transcriptionResponse, modelName) ==
  IF ~IsSome(transcriptionResponse)
    THEN Threw(ErrorOf("TypeError", "Cannot read properties of undefined (reading 'result')"))
  ELSE LET transcription == Get(transcriptionResponse).result
           result == FirstAlternative(transcription)
       IN IF ~IsSome(result)
            THEN Threw(ErrorOf("Error", "No transcription results returned from Deepgram"))
            ELSE Returned(FormattedBody(
              IF IsSome(Get(result).transcript) /\ TruthyString(Get(Get(result).transcript))
                THEN Get(Get(result).transcript) ELSE "",
              IF IsSome(Get(result).words) THEN Get(Get(result).words) ELSE <<>>,
              MetadataField(transcription, "model_uuid"),
              MetadataField(transcription, "request_id"),
              modelName,
              DurationReported(MetadataField(transcription, "duration"))))

(***************************************************************************)
(* Responses.                                                              *)
(***************************************************************************)
getCorsHeaders(cfg) ==
  [allowOrigin |-> <<"http://localhost:", cfg.frontendPort>>,
   allowMethods |-> "GET, POST, OPTIONS",
   allowHeaders |-> "Content-Type",
   allowCredentials |-> "true"]

\* Headers every JSON response of the API handlers is built with.
ApiHeaders(cfg) == IF cfg.variant = "cors" THEN Some(getCorsHeaders(cfg)) ELSE None

\* Response bodies: JSON text of a value, plain text, raw bytes, or no body.
Json(v) == [json |-> v]
Text(s) == [text |-> s]
Raw(b) == [bytes |-> b]
Empty == [empty |-> TRUE]

Response(status, contentType, headers, body) ==
  [status |-> status, contentType |-> contentType, headers |-> headers, body |-> body]

JsonResponse(cfg, status, body) == Response(status, "application/json", ApiHeaders(cfg), body)

errorToString(error) ==
  IF error.kind = "Error"
    THEN IF error.message = "" THEN error.name ELSE error.name \o ": " \o error.message
    ELSE error.message

MessageOf(error) ==
  IF error.kind = "Error" /\ TruthyString(error.message)
    THEN error.message ELSE "An error occurred during transcription"

ErrorBody(statusCode, codeGiven, error) ==
  [error |->
    [type |-> IF statusCode = 400 THEN "ValidationError" ELSE "TranscriptionError",
     code |-> IF TruthyString(codeGiven) THEN codeGiven
              ELSE IF statusCode = 400 THEN "MISSING_INPUT" ELSE "TRANSCRIPTION_FAILED",
     message |-> MessageOf(error),
     details |-> [originalError |-> errorToString(error)]]]

\* Variant that builds the error response without the cross-origin headers.
formatErrorResponse_NoHeaders(cfg, error, statusCode, code) ==
  Response(statusCode, "application/json", None, Json(ErrorBody(statusCode, code, error)))

formatErrorResponse(cfg, error, statusCode, code) ==
  JsonResponse(cfg, statusCode, Json(ErrorBody(statusCode, code, error)))

(***************************************************************************)
(* Static assets: file paths are kept as the pieces split(".") yields.     *)
(***************************************************************************)
EntryFile == <<"", "/frontend/dist/index", "html">>

FilePath(pathname) ==
  IF pathname = RootPath THEN EntryFile
  ELSE <<"", "/frontend/dist" \o pathname[1]>> \o Tail(pathname)

toLowerCase(s) == IF s = "PNG" THEN "png" ELSE IF s = "HTML" THEN "html" ELSE s

ContentTypes ==
  [html |-> "text/html", css |-> "text/css", js |-> "application/javascript",
   json |-> "application/json", png |-> "image/png", jpg |-> "image/jpeg",
   jpeg |-> "image/jpeg", gif |-> "image/gif", svg |-> "image/svg+xml",
   ico |-> "image/x-icon"]

getContentType(filePath) ==
  LET ext == toLowerCase(filePath[Len(filePath)])
  IN IF ext \in DOMAIN ContentTypes THEN ContentTypes[ext] ELSE "application/octet-stream"

ContentOf(filePath) == <<"bytes of", filePath>>

AssetFiles == {EntryFile, FilePath(<<"/LOGO", "PNG">>)}

(***************************************************************************)
(* deepgram.toml as TOML.parse sees it.                                    *)
(***************************************************************************)
TomlValue(type, str, num, entries) == [type |-> type, str |-> str, num |-> num, entries |-> entries]
TomlTable(entries) == TomlValue("table", "", 0, entries)
TomlString(s) == TomlValue("string", s, 0, <<>>)
TomlInteger(n) == TomlValue("integer", "", n, <<>>)
TomlBoolean(b) == TomlValue("boolean", "", IF b THEN 1 ELSE 0, <<>>)
\* An integer outside the safe range, which the parser returns as a BigInt.
TomlBigInt == TomlValue("bigint", "", 2, <<>>)

TomlInf == TomlValue("inf", "", 1, <<>>)
TomlNan == TomlValue("nan", "", 0, <<>>)

TruthyValue(v) ==
  CASE v.type = "table" -> TRUE
    [] v.type = "string" -> TruthyString(v.str)
    [] OTHER -> TruthyNumber(v.num)

\* JSON.stringify throws on a BigInt anywhere in the value.
Serialisable(v) ==
  /\ v.type # "bigint"
  /\ \A k \in 1..Len(v.entries) : v.entries[k][2].type # "bigint"

\* JSON.stringify writes a non-finite number as null.
JsonScalar(v) == IF v.type \in {"inf", "nan"} THEN TomlValue("null", "", 0, <<>>) ELSE v

JsonOf(v) ==
  IF v.type = "table"
    THEN [v EXCEPT !.entries = [k \in 1..Len(v.entries) |->
                                  <<v.entries[k][1], JsonScalar(v.entries[k][2])>>]]
    ELSE JsonScalar(v)

MetaValues ==
  {TomlTable(<<>>), TomlTable(<<<<"title", TomlString("X")>>>>),
   TomlTable(<<<<"size", TomlBigInt>>>>), TomlTable(<<<<"ratio", TomlInf>>>>),
   TomlString(""), TomlString("X"), TomlInteger(0), TomlBoolean(FALSE), TomlNan}

TomlFiles ==
  {[state |-> "unreadable", meta |-> None], [state |-> "malformed", meta |-> None],
   [state |-> "parsed", meta |-> None]}
    \cup {[state |-> "parsed", meta |-> Some(v)] : v \in MetaValues}

MissingMetaBody ==
  [error |-> "INTERNAL_SERVER_ERROR", message |-> "Missing [meta] section in deepgram.toml"]
ReadFailedBody ==
  [error |-> "INTERNAL_SERVER_ERROR", message |-> "Failed to read metadata from deepgram.toml"]
NotFoundBody == [error |-> "Not Found", message |-> "Endpoint not found"]

(***************************************************************************)
(* Replies of the dev server the proxy forwards to.                        *)
(***************************************************************************)
Downstream ==
  {Response(200, "text/html", None, Text("<html>dev</html>")),
   Response(404, "text/plain", None, Text("dev 404")),
   Response(500, "text/plain", None, Text("dev 500"))}

(***************************************************************************)
(* Requests.                                                               *)
(***************************************************************************)
RequestIds == {1}

IdleRequest ==
  [pc |-> "idle", method |-> "", pathname |-> <<>>, search |-> "",
   handler |-> "none", form |-> None, model |-> "", dgRequest |-> None,
   calls |-> <<>>, reply |-> None, toml |-> None, reads |-> <<>>, fetches |-> <<>>,
   downstream |-> None,
   caught |-> None, propagated |-> FALSE, response |-> None]

\* The handler returns a response.
Respond(r, resp) == [r EXCEPT !.pc = "done", !.response = Some(resp)]

\* The handler's promise rejects: no response comes from the handler.
Propagate(r, e) == [r EXCEPT !.pc = "done", !.propagated = TRUE, !.caught = Some(e)]

\* catch block of handleTranscription: formatErrorResponse(err as Error).
\* Reading .message of null / undefined throws inside the catch block.
CatchTranscription(cfg, r, e) ==
  IF e.kind = "nullish"
    THEN Propagate(r, e)
    ELSE Respond([r EXCEPT !.caught = Some(e)], formatErrorResponse(cfg, e, 500, ""))

\* await transcribeAudio(dgRequest, model) up to the provider call.
StartProvider(cfg, r, dgRequest) ==
  LET call == transcribeAudio(dgRequest, r.model)
  IN IF IsSome(call)
       THEN [r EXCEPT !.pc = "provider", !.dgRequest = Some(dgRequest),
                      !.calls = Append(@, Get(call))]
       ELSE CatchTranscription(cfg, [r EXCEPT !.dgRequest = Some(dgRequest)],
                               ErrorOf("Error", "Invalid transcription request"))

\* Does the handler read the upload?
ReadsUpload(variant, file, dgRequest) ==
  IF variant = "cors" THEN Truthy(file)
  ELSE Truthy(file) /\ IsSome(dgRequest.buffer)

\* handleTranscription from the parsed form to its next await.
AfterFormData(cfg, r0, form) ==
  LET r == [r0 EXCEPT !.form = Some(form),
                      !.model = IF Truthy(form.model) THEN form.model.text ELSE DEFAULT_MODEL]
      dgRequest == validateTranscriptionInput(cfg.variant, form.file, form.url)
  IN IF ~IsSome(dgRequest)
       THEN Respond(r, formatErrorResponse(cfg,
                      ErrorOf("Error", "Either file or url must be provided"),
                      400, "MISSING_INPUT"))
     ELSE IF ReadsUpload(cfg.variant, form.file, Get(dgRequest))
       THEN IF form.file.kind = "file"
              THEN [r EXCEPT !.pc = "arrayBuffer", !.dgRequest = dgRequest]
              ELSE CatchTranscription(cfg, [r EXCEPT !.dgRequest = dgRequest],
                     ErrorOf("TypeError", "file.arrayBuffer is not a function"))
     ELSE StartProvider(cfg, r, Get(dgRequest))

\* handleTranscription from the provider's reply to the response.
AfterProvider(cfg, r0, reply) ==
  LET r == [r0 EXCEPT !.reply = Some(reply)]
      formatted == formatTranscriptionResponse(reply, r.model)
  IN IF IsSome(formatted.threw)
       THEN CatchTranscription(cfg, r, Get(formatted.threw))
       ELSE Respond(r, JsonResponse(cfg, 200, Json(Get(formatted.value))))

\* Variant that only asks whether the meta key is present.
AfterReadTextFile_KeyPresent(cfg, r0, toml) ==
  LET r == [r0 EXCEPT !.toml = Some(toml)]
  IN IF toml.state # "parsed"
       THEN Respond(r, JsonResponse(cfg, 500, Json(ReadFailedBody)))
     ELSE IF ~IsSome(toml.meta)
       THEN Respond(r, JsonResponse(cfg, 500, Json(MissingMetaBody)))
     ELSE IF ~Serialisable(Get(toml.meta))
       THEN Respond(r, JsonResponse(cfg, 500, Json(ReadFailedBody)))
     ELSE Respond(r, JsonResponse(cfg, 200, Json(JsonOf(Get(toml.meta)))))

\* handleMetadata from the file read to the response.
AfterReadTextFile(cfg, r0, toml) ==
  LET r == [r0 EXCEPT !.toml = Some(toml)]
  IN IF toml.state # "parsed"
       THEN Respond(r, JsonResponse(cfg, 500, Json(ReadFailedBody)))
     ELSE IF ~(IsSome(toml.meta) /\ TruthyValue(Get(toml.meta)))
       THEN Respond(r, JsonResponse(cfg, 500, Json(MissingMetaBody)))
     ELSE IF ~Serialisable(Get(toml.meta))
       THEN Respond(r, JsonResponse(cfg, 500, Json(ReadFailedBody)))
     ELSE Respond(r, JsonResponse(cfg, 200, Json(JsonOf(Get(toml.meta)))))

\* Variant of the proxied URL that drops the query string.
ViteUrl_NoSearch(cfg, pathname, search) == <<"http://localhost:", cfg.vitePort, pathname, "">>

ViteUrl(cfg, pathname, search) == <<"http://localhost:", cfg.vitePort, pathname, search>>

\* Variant of the router without the preflight branch.
Dispatch_NoPreflight(cfg, r0, method, pathname, search) ==
  LET r == [r0 EXCEPT !.method = method, !.pathname = pathname, !.search = search]
  IN IF method = "POST" /\ pathname = TranscribePath
       THEN [r EXCEPT !.handler = "transcription", !.pc = "formData"]
     ELSE IF method = "GET" /\ pathname = MetadataPath
       THEN [r EXCEPT !.handler = "metadata", !.pc = "readTextFile"]
     ELSE IF cfg.variant = "cors"
       THEN Respond([r EXCEPT !.handler = "notFound"], JsonResponse(cfg, 404, Json(NotFoundBody)))
     ELSE IF cfg.isDevelopment
       THEN [r EXCEPT !.handler = "frontend", !.pc = "fetch",
                      !.fetches = Append(@, [url |-> <<"http://localhost:", cfg.vitePort, pathname, search>>,
                                             method |-> method])]
     ELSE [r EXCEPT !.handler = "frontend", !.pc = "readFile",
                    !.reads = Append(@, FilePath(pathname))]

\* Variant of the router that matches the API routes on the path alone.
Dispatch_PathOnly(cfg, r0, method, pathname, search) ==
  LET r == [r0 EXCEPT !.method = method, !.pathname = pathname, !.search = search]
  IN IF cfg.variant = "cors" /\ method = "OPTIONS"
       THEN Respond([r EXCEPT !.handler = "preflight"],
                    Response(204, "", Some(getCorsHeaders(cfg)), Empty))
     ELSE IF pathname = TranscribePath
       THEN [r EXCEPT !.handler = "transcription", !.pc = "formData"]
     ELSE IF pathname = MetadataPath
       THEN [r EXCEPT !.handler = "metadata", !.pc = "readTextFile"]
     ELSE IF cfg.variant = "cors"
       THEN Respond([r EXCEPT !.handler = "notFound"], JsonResponse(cfg, 404, Json(NotFoundBody)))
     ELSE IF cfg.isDevelopment
       THEN [r EXCEPT !.handler = "frontend", !.pc = "fetch",
                      !.fetches = Append(@, [url |-> <<"http://localhost:", cfg.vitePort, pathname, search>>,
                                             method |-> method])]
     ELSE [r EXCEPT !.handler = "frontend", !.pc = "readFile",
                    !.reads = Append(@, FilePath(pathname))]

\* handleRequest up to the first await of the handler it selects.
Dispatch(cfg, r0, method, pathname, search) ==
  LET r == [r0 EXCEPT !.method = method, !.pathname = pathname, !.search = search]
  IN IF cfg.variant = "cors" /\ method = "OPTIONS"
       THEN Respond([r EXCEPT !.handler = "preflight"],
                    Response(204, "", Some(getCorsHeaders(cfg)), Empty))
     ELSE IF method = "POST" /\ pathname = TranscribePath
       THEN [r EXCEPT !.handler = "transcription", !.pc = "formData"]
     ELSE IF method = "GET" /\ pathname = MetadataPath
       THEN [r EXCEPT !.handler = "metadata", !.pc = "readTextFile"]
     ELSE IF cfg.variant = "cors"
       THEN Respond([r EXCEPT !.handler = "notFound"], JsonResponse(cfg, 404, Json(NotFoundBody)))
     ELSE IF cfg.isDevelopment
       THEN [r EXCEPT !.handler = "frontend", !.pc = "fetch",
                      !.fetches = Append(@, [url |-> ViteUrl(cfg, pathname, search),
                                             method |-> method])]
     ELSE [r EXCEPT !.handler = "frontend", !.pc = "readFile",
                    !.reads = Append(@, FilePath(pathname))]

(***************************************************************************)
(* Initial state: a configuration read once at startup, the asset          *)
(* directory as it is on disk, and no request in flight.                   *)
(***************************************************************************)
Init ==
  /\ config \in Configs
  /\ dist \in SUBSET AssetFiles
  /\ req = [i \in RequestIds |-> IdleRequest]

\* Variant in which the model name lives in a module-level variable: a
\* request that sets it changes it for every request still in flight.
Step_SharedModel(i, r) ==
  /\ req' = [j \in DOMAIN req |->
               IF j = i THEN r
               ELSE IF r.model # "" /\ req[j].pc \notin {"idle", "done"}
                 THEN [req[j] EXCEPT !.model = r.model]
                 ELSE req[j]]
  /\ UNCHANGED <<config, dist>>

Step(i, r) == /\ req' = [req EXCEPT ![i] = r]
              /\ UNCHANGED <<config, dist>>

\* Deno.serve hands a request to handleRequest.
HandleRequest(i) ==
  /\ req[i].pc = "idle"
  /\ \E method \in Methods, pathname \in Pathnames, search \in Searches :
       Step(i, Dispatch(config, req[i], method, pathname, search))

\* await req.formData() resolves.
FormDataResolves(i) ==
  /\ req[i].pc = "formData"
  /\ \E form \in Forms : Step(i, AfterFormData(config, req[i], form))

\* await req.formData() rejects.
FormDataRejects(i) ==
  /\ req[i].pc = "formData"
  /\ \E e \in Thrown : Step(i, CatchTranscription(config, req[i], e))

\* await file.arrayBuffer() resolves: the buffer holds the whole upload.
ArrayBufferResolves(i) ==
  /\ req[i].pc = "arrayBuffer"
  /\ LET dg == Get(req[i].dgRequest)
         file == Get(req[i].form).file
     IN Step(i, StartProvider(config, req[i], [dg EXCEPT !.buffer = Some(file.bytes)]))

\* await file.arrayBuffer() rejects.
ArrayBufferRejects(i) ==
  /\ req[i].pc = "arrayBuffer"
  /\ \E e \in Thrown : Step(i, CatchTranscription(config, req[i], e))

\* The provider call resolves.
ProviderResolves(i) ==
  /\ req[i].pc = "provider"
  /\ \E reply \in Replies : Step(i, AfterProvider(config, req[i], reply))

\* Variant that issues the provider call a second time after a rejection.
ProviderRejects_RetryOnce(i) ==
  /\ req[i].pc = "provider"
  /\ IF Len(req[i].calls) < 2
       THEN Step(i, [req[i] EXCEPT !.calls = Append(@, @[1])])
       ELSE \E e \in Thrown : Step(i, CatchTranscription(config, req[i], e))

\* The provider call rejects.
ProviderRejects(i) ==
  /\ req[i].pc = "provider"
  /\ \E e \in Thrown : Step(i, CatchTranscription(config, req[i], e))

\* await Deno.readTextFile("./deepgram.toml") settles, then TOML.parse.
ReadTextFileSettles(i) ==
  /\ req[i].pc = "readTextFile"
  /\ \E toml \in TomlFiles : Step(i, AfterReadTextFile(config, req[i], toml))

\* serveStaticFile: await Deno.readFile(filePath) settles.
ReadFileSettles(i) ==
  /\ req[i].pc = "readFile"
  /\ LET filePath == FilePath(req[i].pathname)
     IN IF filePath \in dist
          THEN Step(i, Respond(req[i],
                 Response(200, getContentType(filePath), None, Raw(ContentOf(filePath)))))
          ELSE Step(i, [req[i] EXCEPT !.pc = "readIndex", !.reads = Append(@, EntryFile)])

\* Variant of the fallback that answers 404 without serving the entry file.
ReadIndexSettles_NoFallback(i) ==
  /\ req[i].pc = "readIndex"
  /\ Step(i, Respond(req[i], Response(404, "text/plain", None, Text("Not Found"))))

\* serveStaticFile: the fallback read of the entry file settles.
ReadIndexSettles(i) ==
  /\ req[i].pc = "readIndex"
  /\ IF EntryFile \in dist
       THEN Step(i, Respond(req[i], Response(200, "text/html", None, Raw(ContentOf(EntryFile)))))
       ELSE Step(i, Respond(req[i], Response(404, "text/plain", None, Text("Not Found"))))

\* handleFrontend: the proxied fetch resolves with the dev server's response.
FetchResolves(i) ==
  /\ req[i].pc = "fetch"
  /\ \E response \in Downstream :
       Step(i, Respond([req[i] EXCEPT !.downstream = Some(response)], response))

\* handleFrontend: the proxied fetch rejects (dev server unreachable).
FetchRejects(i) ==
  /\ req[i].pc = "fetch"
  /\ Step(i, Respond(req[i],
       Response(502, "text/plain", None,
                Text(<<"Vite dev server not running on port ", config.vitePort>>))))

Next ==
  \E i \in RequestIds :
    \/ HandleRequest(i)
    \/ FormDataResolves(i)
    \/ FormDataRejects(i)
    \/ ArrayBufferResolves(i)
    \/ ArrayBufferRejects(i)
    \/ ProviderResolves(i)
    \/ ProviderRejects(i)
    \/ ReadTextFileSettles(i)
    \/ ReadFileSettles(i)
    \/ ReadIndexSettles(i)
    \/ FetchResolves(i)
    \/ FetchRejects(i)

Spec == Init /\ [][Next]_vars

\* What the client receives: the handler's response, or the 500 with which
\* Deno.serve (no onError given) answers a handler whose promise rejected.
Served(r) ==
  IF r.propagated
    THEN Response(500, "text/plain", None, Text("Internal Server Error"))
    ELSE Get(r.response)

(***************************************************************************)
(* Vocabulary of the properties.                                           *)
(***************************************************************************)
Transcriptions == {i \in DOMAIN req : req[i].handler = "transcription"}
Parsed(r) == IsSome(r.form)
HasFile(r) == Truthy(Get(r.form).file)
HasUrl(r) == Truthy(Get(r.form).url)
Done(r) == r.pc = "done"
Status(r) == Get(r.response).status
Body(r) == Get(r.response).body

IsErrorPayload(r, status, type, code) ==
  /\ IsSome(r.response)
  /\ Status(r) = status
  /\ DOMAIN Body(r) = {"json"}
  /\ DOMAIN Body(r).json = {"error"}
  /\ Body(r).json.error.type = type
  /\ Body(r).json.error.code = code

RequestedModel(r) ==
  LET m == Get(r.form).model
  IN IF m.kind = "null" \/ m.text = "" THEN "nova-3" ELSE m.text

HasFirstAlternative(reply) ==
  reply \in {Some([result |-> Some(t)]) : t \in GoodTranscriptions}

\* Only meaningful for replies with a first alternative.
ProviderAlternative(reply) ==
  Get(Get(Get(Get(Get(reply).result).results).channels)[1].alternatives)[1]
ProviderMetadata(reply) == Get(Get(reply).result).metadata

\* C1: a transcription request whose form has neither a file nor a url (an
\* empty url counts as none) is answered 400 ValidationError MISSING_INPUT
\* and never reaches the provider.
C1_MissingInput ==
  \A i \in Transcriptions :
    LET r == req[i]
    IN (Parsed(r) /\ ~HasFile(r) /\ ~HasUrl(r))
         => /\ Done(r)
            /\ ~r.propagated
            /\ IsErrorPayload(r, 400, "ValidationError", "MISSING_INPUT")
            /\ r.calls = <<>>

C1_Witness ==
  \E i \in Transcriptions :
    /\ Parsed(req[i]) /\ Done(req[i])
    /\ Get(req[i].form).url = TextField("")
    /\ Get(req[i].form).file = NullField
    /\ IsSome(req[i].response) /\ Status(req[i]) = 400

\* C2: with both a file and a url the provider is invoked once, with the
\* URL operation only, whatever the file holds and whether or not it can be
\* read.
C2_UrlPrecedence ==
  \A i \in Transcriptions :
    LET r == req[i]
    IN (Done(r) /\ Parsed(r) /\ HasFile(r) /\ HasUrl(r))
         => r.calls = <<ProviderCall("transcribeUrl", Some(Get(r.form).url.text),
                                     None, None, RequestedModel(r))>>

\* C3: a provider reply without results.channels[0].alternatives[0] is
\* answered 500 TranscriptionError TRANSCRIPTION_FAILED.
C3_MalformedReply ==
  \A i \in Transcriptions :
    LET r == req[i]
    IN (Done(r) /\ IsSome(r.reply) /\ ~HasFirstAlternative(Get(r.reply)))
         => /\ ~r.propagated
            /\ IsErrorPayload(r, 500, "TranscriptionError", "TRANSCRIPTION_FAILED")

C3_Witness ==
  \E i \in Transcriptions :
    /\ Done(req[i]) /\ IsSome(req[i].reply)
    /\ Get(req[i].reply) = Some([result |-> Some(Transcription(Some(Results(Some(<<>>))), None))])
    /\ IsSome(req[i].response) /\ Status(req[i]) = 500

\* C4: the 200 body carries the first alternative's transcript and words
\* ("" and <<>> when absent), the provider's model_uuid and request_id, and
\* as model_name the requested model ("nova-3" when the field is absent or
\* empty), never the provider's own model identifier.
C4_SuccessBody ==
  \A i \in Transcriptions :
    LET r == req[i]
    IN (Done(r) /\ IsSome(r.response) /\ Status(r) = 200)
         => /\ IsSome(r.reply) /\ HasFirstAlternative(Get(r.reply))
            /\ LET alt == ProviderAlternative(Get(r.reply))
                   md == ProviderMetadata(Get(r.reply))
                   body == Body(r).json
               IN /\ body.transcript = IF IsSome(alt.transcript) THEN Get(alt.transcript) ELSE ""
                  /\ body.words = IF IsSome(alt.words) THEN Get(alt.words) ELSE <<>>
                  /\ body.metadata.model_uuid = IF IsSome(md) THEN Get(md).model_uuid ELSE None
                  /\ body.metadata.request_id = IF IsSome(md) THEN Get(md).request_id ELSE None
                  /\ body.metadata.model_name = RequestedModel(r)

C4_Witness ==
  \E i \in Transcriptions :
    /\ Done(req[i]) /\ IsSome(req[i].response) /\ Status(req[i]) = 200
    /\ Get(req[i].form).model = TextField("")
    /\ IsSome(ProviderMetadata(Get(req[i].reply)))
    /\ Get(ProviderMetadata(Get(req[i].reply))).models = Some("provider-internal-model")
    /\ Body(req[i]).json.transcript = "hello world"
    /\ Body(req[i]).json.words = <<Word>>
    /\ Body(req[i]).json.metadata.model_name = "nova-3"

\* C5: the 200 body has a duration field exactly when the provider's
\* metadata reported a duration (zero included), and it is that value.
C5_DurationIffReported ==
  \A i \in Transcriptions :
    LET r == req[i]
    IN (Done(r) /\ IsSome(r.response) /\ Status(r) = 200)
         => LET md == ProviderMetadata(Get(r.reply))
            IN Body(r).json.duration = IF IsSome(md) THEN Get(md).duration ELSE None

\* C6: every transcription request ends with a response returned by the
\* handler, whatever was thrown on the way (values that are not Error
\* objects included); the handler never lets the exception escape.
C6_AlwaysResponds ==
  \A i \in Transcriptions :
    Done(req[i]) => (IsSome(req[i].response) /\ ~req[i].propagated)

\* C7: a failed transcription request is answered 400 ValidationError
\* MISSING_INPUT exactly when neither file nor url was supplied and 500
\* TranscriptionError TRANSCRIPTION_FAILED for every other failure; the body
\* holds type, code, message and the stringified error only, no stack.
C7_ErrorShapes ==
  \A i \in Transcriptions :
    LET r == req[i]
    IN (Done(r) /\ ~(IsSome(r.response) /\ Status(r) = 200))
         => /\ IsSome(r.response)
            /\ IF Parsed(r) /\ ~HasFile(r) /\ ~HasUrl(r)
                 THEN IsErrorPayload(r, 400, "ValidationError", "MISSING_INPUT")
                 ELSE IsErrorPayload(r, 500, "TranscriptionError", "TRANSCRIPTION_FAILED")
            /\ DOMAIN Body(r).json.error = {"type", "code", "message", "details"}
            /\ DOMAIN Body(r).json.error.details = {"originalError"}
            /\ IsSome(r.caught) =>
                 /\ Body(r).json.error.details.originalError = errorToString(Get(r.caught))
                 /\ Get(r.caught).kind = "Error" =>
                      /\ Body(r).json.error.details.originalError # Get(r.caught).stack
                      /\ Body(r).json.error.message # Get(r.caught).stack

IsApiRoute(r) ==
  \/ r.method = "POST" /\ r.pathname = TranscribePath
  \/ r.method = "GET" /\ r.pathname = MetadataPath

HandlerSelection(r) ==
  /\ r.handler = "transcription" <=> (r.method = "POST" /\ r.pathname = TranscribePath)
  /\ r.handler = "metadata" <=> (r.method = "GET" /\ r.pathname = MetadataPath)

IsNotFoundJson(r) ==
  /\ IsSome(r.response)
  /\ Status(r) = 404
  /\ Get(r.response).contentType = "application/json"
  /\ Body(r) = Json([error |-> "Not Found", message |-> "Endpoint not found"])

Metadatas_ == {i \in DOMAIN req : req[i].handler = "metadata" /\ Done(req[i])}

IsMetadataError(r, message) ==
  /\ Status(r) = 500
  /\ Body(r) = Json([error |-> "INTERNAL_SERVER_ERROR", message |-> message])

\* C9 (as stated): 200 with the meta section verbatim whenever the parsed
\* file has a top-level meta key, whatever its value; 500 "Missing [meta]
\* section" when the key is absent; 500 "Failed to read metadata" when the
\* file cannot be read or parsed.
C9_MetadataOriginal ==
  \A i \in Metadatas_ :
    LET r == req[i]
        toml == Get(r.toml)
    IN /\ IsSome(r.response)
       /\ IF toml.state # "parsed"
            THEN IsMetadataError(r, "Failed to read metadata from deepgram.toml")
          ELSE IF ~IsSome(toml.meta)
            THEN IsMetadataError(r, "Missing [meta] section in deepgram.toml")
          ELSE Status(r) = 200 /\ Body(r) = Json(Get(toml.meta))

FalsyMeta == {TomlString(""), TomlInteger(0), TomlBoolean(FALSE), TomlNan}
UnserialisableMeta == {TomlTable(<<<<"size", TomlBigInt>>>>)}

\* C9 (amended): 200 with the JSON serialisation of the meta value (an
\* empty table included) whenever the parsed file has a top-level meta key
\* whose value is truthy and serialisable; 500 "Missing [meta] section"
\* when the key is absent or its value is falsy (false, 0, nan, ""); 500
\* "Failed to read metadata", with no text of the original error, when the
\* file cannot be read or parsed or the value cannot be written as JSON.
C9_Metadata ==
  \A i \in Metadatas_ :
    LET r == req[i]
        toml == Get(r.toml)
    IN /\ IsSome(r.response)
       /\ IF toml.state # "parsed"
            THEN IsMetadataError(r, "Failed to read metadata from deepgram.toml")
          ELSE IF ~IsSome(toml.meta) \/ Get(toml.meta) \in FalsyMeta
            THEN IsMetadataError(r, "Missing [meta] section in deepgram.toml")
          ELSE IF Get(toml.meta) \in UnserialisableMeta
            THEN IsMetadataError(r, "Failed to read metadata from deepgram.toml")
          ELSE /\ Status(r) = 200
               /\ Body(r) = Json(JsonOf(Get(toml.meta)))
               /\ Get(toml.meta).type = "table" /\ Len(Get(toml.meta).entries) = 0
                    => Body(r) = Json(TomlTable(<<>>))

C9_Witness ==
  \E i \in Metadatas_ :
    /\ Get(req[i].toml) = [state |-> "parsed", meta |-> Some(TomlTable(<<>>))]
    /\ IsSome(req[i].response) /\ Status(req[i]) = 200

StaticRequests ==
  {i \in DOMAIN req : req[i].handler = "frontend" /\ ~config.isDevelopment}

\* C10: in static mode a path that maps to no readable asset is answered
\* with the entry file's bytes as text/html, status 200, whenever the entry
\* file exists, and with 404 plain text only when the entry file is missing
\* too; the root path maps to the entry file.
C10_StaticFallback ==
  \A i \in StaticRequests :
    LET r == req[i]
        asset == IF r.pathname = <<"/">>
                   THEN <<"", "/frontend/dist/index", "html">>
                   ELSE <<"", "/frontend/dist" \o r.pathname[1]>> \o Tail(r.pathname)
    IN /\ r.reads[1] = asset
       /\ Done(r) =>
            /\ IsSome(r.response)
            /\ (asset \notin dist /\ EntryFile \in dist) =>
                 /\ Status(r) = 200
                 /\ Get(r.response).contentType = "text/html"
                 /\ Body(r) = Raw(ContentOf(EntryFile))
            /\ (asset \notin dist /\ EntryFile \notin dist) =>
                 /\ Status(r) = 404
                 /\ Get(r.response).contentType = "text/plain"
                 /\ Body(r) = Text("Not Found")
            /\ Status(r) = 404 => EntryFile \notin dist

C10_Witness ==
  \E i \in StaticRequests :
    /\ req[i].pathname = <<"/missing">>
    /\ EntryFile \in dist
    /\ Done(req[i]) /\ Status(req[i]) = 200
    /\ Body(req[i]) = Raw(ContentOf(EntryFile))

\* C11: in proxy mode every request outside the two API routes is
\* re-issued once to the dev server on the configured port with the same
\* method, path and query string, no asset file is read, and the answer is
\* the downstream response unmodified or, when the dev server cannot be
\* reached, 502 plain text naming the configured port.
C11_Proxy ==
  \A i \in DOMAIN req :
    LET r == req[i]
    IN (r.pc # "idle" /\ config.variant = "frontend" /\ config.isDevelopment /\ ~IsApiRoute(r))
         => /\ r.handler = "frontend"
            /\ r.fetches = <<[url |-> <<"http://localhost:", config.vitePort, r.pathname, r.search>>,
                              method |-> r.method]>>
            /\ r.reads = <<>>
            /\ Done(r) =>
                 /\ IsSome(r.response) /\ ~r.propagated
                 /\ IF IsSome(r.downstream)
                      THEN Get(r.response) = Get(r.downstream)
                      ELSE /\ Status(r) = 502
                           /\ Get(r.response).contentType = "text/plain"
                           /\ Body(r) = Text(<<"Vite dev server not running on port ",
                                               config.vitePort>>)

C11_Witness ==
  \E i \in DOMAIN req :
    /\ config.variant = "frontend" /\ config.isDevelopment /\ config.vitePort = 5173
    /\ req[i].method = "POST" /\ req[i].pathname = MetadataPath /\ req[i].search = "?v=1"
    /\ Done(req[i]) /\ ~IsSome(req[i].downstream) /\ Status(req[i]) = 502

CrossOriginHeaders ==
  [allowOrigin |-> <<"http://localhost:", config.frontendPort>>,
   allowMethods |-> "GET, POST, OPTIONS",
   allowHeaders |-> "Content-Type",
   allowCredentials |-> "true"]

\* C12: in the cross-origin variant every OPTIONS request, whatever its
\* path, is answered 204 with an empty body and the cross-origin headers of
\* the configured frontend origin, and reaches neither the transcription
\* handler, nor the metadata handler, nor the provider.
C12_Preflight ==
  \A i \in DOMAIN req :
    LET r == req[i]
    IN (r.pc # "idle" /\ config.variant = "cors" /\ r.method = "OPTIONS")
         => /\ r.handler = "preflight"
            /\ Done(r) /\ IsSome(r.response) /\ ~r.propagated
            /\ Status(r) = 204
            /\ Body(r) = Empty
            /\ Get(r.response).headers = Some(CrossOriginHeaders)
            /\ r.calls = <<>> /\ r.form = None /\ r.toml = None

C12_Witness ==
  \E i \in DOMAIN req :
    /\ config.variant = "cors" /\ config.frontendPort = 3000
    /\ req[i].method = "OPTIONS" /\ req[i].pathname = TranscribePath
    /\ Done(req[i]) /\ Status(req[i]) = 204

\* C13: when the provider is invoked, the request object handed over has
\* exactly one input form populated: the url alone, or the buffer with its
\* MIME type alone (never both, never neither); in file mode the buffer is
\* the complete upload, read before the call.
C13_OneInputForm ==
  \A i \in Transcriptions :
    LET r == req[i]
    IN (Len(r.calls) > 0)
         => LET dg == Get(r.dgRequest)
                file == Get(r.form).file
            IN \/ /\ IsSome(dg.url)
                  /\ ~IsSome(dg.buffer) /\ ~IsSome(dg.mimetype)
               \/ /\ ~IsSome(dg.url)
                  /\ IsSome(dg.buffer) /\ IsSome(dg.mimetype)
                  /\ Get(dg.buffer) = file.bytes

\* C14: a transcription request causes at most one provider call in its
\* whole life; when the call settles the request is finished in that same
\* step with no further call, a failed call (a rejection, or a reply that
\* cannot be formatted) is answered 500, and a finished request never
\* changes again.
C14_NoRetry ==
  /\ [](\A i \in DOMAIN req : Len(req[i].calls) <= 1)
  /\ [][\A i \in DOMAIN req :
          /\ (req[i].pc = "provider" /\ req'[i] # req[i])
               => /\ req'[i].pc = "done"
                  /\ req'[i].calls = req[i].calls
                  /\ IsSome(req'[i].caught) => Served(req'[i]).status = 500
          /\ req[i].pc = "done" => req'[i] = req[i]]_vars

C14_Witness ==
  \E i \in Transcriptions :
    /\ Done(req[i]) /\ Len(req[i].calls) = 1
    /\ IsSome(req[i].caught) /\ ~IsSome(req[i].reply)
    /\ IsSome(req[i].response) /\ Status(req[i]) = 500

\* C16: in the cross-origin variant every response a handler returns
\* (transcription 200, 400 and 500, metadata 200 and 500, the 404 body and
\* the 204 preflight) carries the same four cross-origin headers, with the
\* allowed origin on the configured frontend port.
C16_CorsHeaders ==
  \A i \in DOMAIN req :
    LET r == req[i]
    IN (config.variant = "cors" /\ IsSome(r.response))
         => /\ IsSome(Get(r.response).headers)
            /\ DOMAIN Get(Get(r.response).headers) =
                 {"allowOrigin", "allowMethods", "allowHeaders", "allowCredentials"}
            /\ Get(Get(r.response).headers) = CrossOriginHeaders

C16_Witness ==
  \E i \in Transcriptions :
    /\ config.variant = "cors" /\ config.frontendPort = 3000
    /\ Done(req[i]) /\ IsSome(req[i].response) /\ Status(req[i]) = 500
    /\ Get(req[i].response).headers = Some(CrossOriginHeaders)

(***************************************************************************)
(* Two requests in flight at once.  Deno.serve starts handleRequest for    *)
(* each connection; the handlers interleave at their awaits.  The inputs   *)
(* are a few representatives of each kind.                                 *)
(***************************************************************************)
ConcIds == {1, 2}

ConcMethods == {"GET", "POST"}
ConcPathnames == {TranscribePath, MetadataPath, <<"/missing">>}
ConcUpload == FileField("audio/wav", <<>>)
ConcUrl == TextField("https://a/x.wav")
ConcForms ==
  {[file |-> NullField, url |-> NullField, model |-> NullField],
   [file |-> ConcUpload, url |-> NullField, model |-> NullField],
   [file |-> NullField, url |-> ConcUrl, model |-> TextField("nova-2")],
   [file |-> ConcUpload, url |-> ConcUrl, model |-> NullField]}
ConcThrown == {ErrorOf("Error", "boom"), ThrownNullish}
ConcReplies ==
  {Some([result |-> None]),
   Some([result |-> Some(Transcription(
      Some(Results(Some(<<Channel(Some(<<[transcript |-> Some("hello world"),
                                          words |-> Some(<<Word>>)]>>))>>))),
      Some(ProviderMetadata_(Some("abc"), Some("req-1"), Some(1),
                             Some("provider-internal-model")))))])}
ConcTomlFiles ==
  {[state |-> "unreadable", meta |-> None],
   [state |-> "parsed", meta |-> Some(TomlTable(<<<<"title", TomlString("X")>>>>))]}
ConcDownstream == {Response(200, "text/html", None, Text("<html>dev</html>"))}

InitConc ==
  /\ config \in Configs
  /\ dist \in {{}, {EntryFile}}
  /\ req = [i \in ConcIds |-> IdleRequest]

ConcHandleRequest(i) ==
  /\ req[i].pc = "idle"
  /\ \E method \in ConcMethods, pathname \in ConcPathnames :
       Step(i, Dispatch(config, req[i], method, pathname, ""))

ConcFormDataResolves(i) ==
  /\ req[i].pc = "formData"
  /\ \E form \in ConcForms : Step(i, AfterFormData(config, req[i], form))

ConcFormDataRejects(i) ==
  /\ req[i].pc = "formData"
  /\ \E e \in ConcThrown : Step(i, CatchTranscription(config, req[i], e))

ConcArrayBufferRejects(i) ==
  /\ req[i].pc = "arrayBuffer"
  /\ \E e \in ConcThrown : Step(i, CatchTranscription(config, req[i], e))

ConcProviderResolves(i) ==
  /\ req[i].pc = "provider"
  /\ \E reply \in ConcReplies : Step(i, AfterProvider(config, req[i], reply))

ConcProviderRejects(i) ==
  /\ req[i].pc = "provider"
  /\ \E e \in ConcThrown : Step(i, CatchTranscription(config, req[i], e))

ConcReadTextFileSettles(i) ==
  /\ req[i].pc = "readTextFile"
  /\ \E toml \in ConcTomlFiles : Step(i, AfterReadTextFile(config, req[i], toml))

ConcFetchResolves(i) ==
  /\ req[i].pc = "fetch"
  /\ \E response \in ConcDownstream :
       Step(i, Respond([req[i] EXCEPT !.downstream = Some(response)], response))

NextConc ==
  \E i \in ConcIds :
    \/ ConcHandleRequest(i)
    \/ ConcFormDataResolves(i)
    \/ ConcFormDataRejects(i)
    \/ ArrayBufferResolves(i)
    \/ ConcArrayBufferRejects(i)
    \/ ConcProviderResolves(i)
    \/ ConcProviderRejects(i)
    \/ ConcReadTextFileSettles(i)
    \/ ReadFileSettles(i)
    \/ ReadIndexSettles(i)
    \/ ConcFetchResolves(i)
    \/ FetchRejects(i)

SpecConc == InitConc /\ [][NextConc]_vars

\* The steps a request can take when it is the only one being handled.
Alone(cfg, d, r) ==
  CASE r.pc = "idle" ->
         {Dispatch(cfg, r, method, pathname, search) :
            method \in Methods, pathname \in Pathnames, search \in Searches}
    [] r.pc = "formData" ->
         {AfterFormData(cfg, r, form) : form \in Forms}
           \cup {CatchTranscription(cfg, r, e) : e \in Thrown}
    [] r.pc = "arrayBuffer" ->
         {StartProvider(cfg, r, [Get(r.dgRequest) EXCEPT
                                   !.buffer = Some(Get(r.form).file.bytes)])}
           \cup {CatchTranscription(cfg, r, e) : e \in Thrown}
    [] r.pc = "provider" ->
         {AfterProvider(cfg, r, reply) : reply \in Replies}
           \cup {CatchTranscription(cfg, r, e) : e \in Thrown}
    [] r.pc = "readTextFile" ->
         {AfterReadTextFile(cfg, r, toml) : toml \in TomlFiles}
    [] r.pc = "readFile" ->
         IF FilePath(r.pathname) \in d
           THEN {Respond(r, Response(200, getContentType(FilePath(r.pathname)), None,
                                     Raw(ContentOf(FilePath(r.pathname)))))}
           ELSE {[r EXCEPT !.pc = "readIndex", !.reads = Append(@, EntryFile)]}
    [] r.pc = "readIndex" ->
         IF EntryFile \in d
           THEN {Respond(r, Response(200, "text/html", None, Raw(ContentOf(EntryFile))))}
           ELSE {Respond(r, Response(404, "text/plain", None, Text("Not Found")))}
    [] r.pc = "fetch" ->
         {Respond([r EXCEPT !.downstream = Some(response)], response) : response \in Downstream}
           \cup {Respond(r, Response(502, "text/plain", None,
                                     Text(<<"Vite dev server not running on port ",
                                            cfg.vitePort>>)))}
    [] OTHER -> {}

\* What a request receives from outside: the HTTP request, the parsed form,
\* the replies of its collaborators and what they threw.
SameInputs(a, b) ==
  /\ a.method = b.method /\ a.pathname = b.pathname /\ a.search = b.search
  /\ a.form = b.form /\ a.reply = b.reply /\ a.toml = b.toml
  /\ a.downstream = b.downstream /\ a.caught = b.caught

\* C15: requests in flight together do not affect each other.  Under every
\* interleaving of their awaits, each step belongs to one request, is a
\* step that request could take if it were handled alone, and leaves every
\* other request, the configuration and the asset directory untouched; two
\* finished requests with the same inputs and the same replies have the
\* same outcome.
C15_Isolation ==
  /\ [](\A i, j \in DOMAIN req :
          (Done(req[i]) /\ Done(req[j]) /\ SameInputs(req[i], req[j]))
            => /\ req[i].response = req[j].response
               /\ req[i].propagated = req[j].propagated)
  /\ [][/\ config' = config
        /\ dist' = dist
        /\ \E i \in DOMAIN req :
             /\ \A j \in DOMAIN req \ {i} : req'[j] = req[j]
             /\ req'[i] \in Alone(config, dist, req[i])]_vars

\* One request has failed (its handler rejected) while the other is still
\* waiting for the provider.
C15_Witness ==
  \E i, j \in DOMAIN req :
    /\ i # j
    /\ Done(req[i]) /\ req[i].propagated
    /\ req[j].pc = "provider" /\ req[j].model = "nova-2"

====
